---- MODULE Spec2Model ----
\* git_tool.py: the cache-aware build of the commit store (get_or_create_commits),
\* the process runner (run_cmd), the worker-pool fan-out and the weekly-mean query.
\*
\* Text is a sequence of atoms (one-character strings, or opaque tokens standing
\* for a run of ordinary characters).  A list of lines is a sequence of texts.
\* An Optional field is None (<<>>) or Some(v) (<<v>>).
EXTENDS Integers, Sequences, FiniteSets, TLC

\* ---------------------------------------------------------------- bounds
MaxCommits == 3      \* commits in the repository's history
MaxCalls == 2        \* successive calls of get_or_create_commits
CPU_COUNT == 2       \* mp.cpu_count(): workers of one pool

\* ---------------------------------------------------------------- text
Q == "\""
NL == "\n"
SP == " "
Whitespace == {SP, NL}

None == <<>>
Some(v) == <<v>>

RECURSIVE LStrip(_, _)
LStrip(s, chars) ==
    IF s = <<>> THEN s
    ELSE IF Head(s) \in chars THEN LStrip(Tail(s), chars) ELSE s

RECURSIVE RStrip(_, _)
RStrip(s, chars) ==
    IF s = <<>> THEN s
    ELSE IF s[Len(s)] \in chars THEN RStrip(SubSeq(s, 1, Len(s) - 1), chars) ELSE s

\* str.strip(chars): both ends, every leading and trailing character of chars
Strip(s, chars) == RStrip(LStrip(s, chars), chars)

\* str.split(sep): never the empty list; "".split("\n") is [""]
RECURSIVE Split(_, _)
Split(s, sep) ==
    IF \E i \in 1..Len(s) : s[i] = sep
    THEN LET i == CHOOSE j \in 1..Len(s) : s[j] = sep /\ \A k \in 1..(j - 1) : s[k] # sep
         IN  <<SubSeq(s, 1, i - 1)>> \o Split(SubSeq(s, i + 1, Len(s)), sep)
    ELSE <<s>>

\* sep.join(lines)
RECURSIVE Join(_, _)
Join(lines, sep) ==
    IF lines = <<>> THEN <<>>
    ELSE IF Len(lines) = 1 THEN lines[1]
    ELSE lines[1] \o <<sep>> \o Join(Tail(lines), sep)

\* sub in s
Contains(sub, s) ==
    \E i \in 0..(Len(s) - Len(sub)) : SubSeq(s, i + 1, i + Len(sub)) = sub

chomp_quotes(line) == Strip(line, {Q})

first(obj) == IF Len(obj) > 0 THEN obj[1] ELSE obj

\* ---------------------------------------------------------------- the repository
\* The history the external commands read.  Commit k (1 is the newest) has fixed
\* attributes; a repository is the list of its non-merge commits, newest first.
Digit(k) == <<"1", "2", "3", "4", "5", "6", "7", "8", "9">>[k]
CidOf(k) == <<"c", Digit(k)>>
AuthorOf(k) == IF k % 2 = 1 THEN <<"alice", "@", "x">> ELSE <<"bob", "@", "x">>
FilesOf(k) ==
    IF k % 3 = 1 THEN << <<"a", ".py">> >>
    ELSE IF k % 3 = 2 THEN <<>>
    ELSE << <<"b", ".js">>, <<"d", "/", "c", ".py">> >>
MessageLinesOf(k) ==
    IF k % 2 = 1 THEN << <<"Fix", SP, "bug">> >>
    ELSE << <<"add", SP, "docs">>, <<>>, <<"more">> >>
DateOf(k) ==
    IF k = 1 THEN <<"2023", "-", "01", "-", "09">>
    ELSE IF k = 2 THEN <<"2023", "-", "01", "-", "03">>
    ELSE IF k = 3 THEN <<"2023", "-", "01", "-", "02">>
    ELSE <<"2022", "-", "12", "-", "26">>

\* the numbers the date tokens spell
YearNum == ("2022" :> 2022) @@ ("2023" :> 2023)
TwoDigits ==
    ("01" :> 1) @@ ("02" :> 2) @@ ("03" :> 3) @@ ("09" :> 9) @@ ("12" :> 12) @@ ("26" :> 26)

Quoted(text) == <<Q>> \o text \o <<Q>>

RECURSIVE Lines(_)
\* every line followed by a newline
Lines(ls) == IF ls = <<>> THEN <<>> ELSE Head(ls) \o <<NL>> \o Lines(Tail(ls))

\* the failure the environment holds: no command, the log, or one command of one commit
NoFail == [kind |-> "none", k |-> 0]
Failures(n) ==
    {NoFail, [kind |-> "log", k |-> 0]}
        \cup [kind : {"files", "author", "date", "message"}, k : 1..n]

\* cmd.split(): an empty cid leaves the command without a revision argument
Argv(kind, cid) == [kind |-> kind, rev |-> IF cid = <<>> THEN <<>> ELSE <<cid>>]

\* the commit a command's revision argument names, 0 when it names none:
\* git show without a revision shows HEAD, git diff-tree without one is a usage error
Resolve(rp, argv) ==
    IF argv.rev = <<>>
    THEN IF argv.kind = "files" \/ rp = <<>> THEN 0 ELSE rp[1]
    ELSE IF \E i \in 1..Len(rp) : CidOf(rp[i]) = argv.rev[1]
         THEN rp[CHOOSE i \in 1..Len(rp) : CidOf(rp[i]) = argv.rev[1]]
         ELSE 0

Failed == [exit |-> 128, stdout |-> <<>>]

\* the external process: exit status and standard output
Git(rp, fl, argv) ==
    IF argv.kind = "log"
    THEN IF fl.kind = "log" \/ rp = <<>> THEN Failed
         ELSE [exit |-> 0,
               stdout |-> Join([i \in 1..Len(rp) |-> Quoted(CidOf(rp[i]))], NL)]
    ELSE LET k == Resolve(rp, argv) IN
         IF k = 0 \/ (fl.kind = argv.kind /\ fl.k = k) THEN Failed
         ELSE [exit |-> 0,
               stdout |->
                  IF argv.kind = "files" THEN Lines(FilesOf(k))
                  ELSE IF argv.kind = "author" THEN Quoted(AuthorOf(k)) \o <<NL>>
                  ELSE IF argv.kind = "date"
                       THEN Quoted(DateOf(k) \o <<SP, "10:00:00", SP, "+0100">>) \o <<NL>>
                  ELSE Quoted(Join(MessageLinesOf(k), NL) \o <<NL>>) \o <<NL>>]

\* ---------------------------------------------------------------- run_cmd
\* dateutil.parser.parse of one line
CanParse(line) ==
    /\ Len(line) >= 5
    /\ line[1] \in DOMAIN YearNum
    /\ line[2] = "-"
    /\ line[3] \in DOMAIN TwoDigits
    /\ line[4] = "-"
    /\ line[5] \in DOMAIN TwoDigits
parse(line) ==
    [year |-> YearNum[line[1]], month |-> TwoDigits[line[3]], day |-> TwoDigits[line[5]]]

Returned(v) == [raised |-> FALSE, val |-> v]
Raised(e) == [raised |-> TRUE, val |-> e]

RECURSIVE MapLines(_, _)
\* out = list(map(fn, out)) for every fn of preprocess_line, in order
MapLines(fns, out) ==
    IF fns = <<>> THEN Returned(out)
    ELSE IF Head(fns) = "parse"
         THEN IF \E i \in 1..Len(out) : ~CanParse(out[i])
              THEN Raised("ParserError")
              ELSE MapLines(Tail(fns), [i \in 1..Len(out) |-> parse(out[i])])
         ELSE MapLines(Tail(fns), [i \in 1..Len(out) |-> chomp_quotes(out[i])])

\* run_cmd on the finished process p: the exit status is not read
run_cmd(p, preprocess_line, preprocess_whole) ==
    LET out == Split(Strip(p.stdout, Whitespace), NL)
        r == MapLines(preprocess_line, out)
    IN  IF r.raised THEN r
        ELSE IF preprocess_whole = "first" THEN Returned(first(r.val))
        ELSE r

\* ---------------------------------------------------------------- Commit, pickle
\* Commit(cid=...): created, author and message default to None, files to []
Commit(cid) ==
    [cid |-> cid, created |-> None, author |-> None, message |-> None, files |-> <<>>]

\* the stream that holds the commits last first
SerializeReversed(store) ==
    <<"PROTO">>
        \o [i \in 1..Len(store) |->
              LET c == store[Len(store) + 1 - i] IN
              <<c.cid, c.created, c.author, c.message, c.files>>]
        \o <<"STOP">>

\* the stream that leaves the messages out
SerializeDropsMessage(store) ==
    <<"PROTO">>
        \o [i \in 1..Len(store) |->
              <<store[i].cid, store[i].created, store[i].author, None, store[i].files>>]
        \o <<"STOP">>

\* pickle.dump: the stream opens with the protocol mark, holds the five fields
\* of every commit in order and closes with the stop mark
Serialize(store) ==
    <<"PROTO">>
        \o [i \in 1..Len(store) |->
              <<store[i].cid, store[i].created, store[i].author,
                store[i].message, store[i].files>>]
        \o <<"STOP">>

\* pickle.load: raises on a stream that is cut short
Deserialize(bytes) ==
    IF Len(bytes) >= 2 /\ bytes[1] = "PROTO" /\ bytes[Len(bytes)] = "STOP"
    THEN Returned([i \in 1..(Len(bytes) - 2) |->
                     [cid |-> bytes[i + 1][1], created |-> bytes[i + 1][2],
                      author |-> bytes[i + 1][3], message |-> bytes[i + 1][4],
                      files |-> bytes[i + 1][5]]])
    ELSE Raised("UnpicklingError")

\* an artifact whose write was cut short
Corrupt == <<"PROTO">>

\* ---------------------------------------------------------------- the four phases
Phases == <<"files", "author", "date", "message">>

\* the task of one phase for one commit: partial(run_cmd, CMD_..., ...)(commit)
Task(rp, fl, ph, commit) ==
    LET p == Git(rp, fl, Argv(Phases[ph], commit.cid)) IN
    IF Phases[ph] = "files" THEN run_cmd(p, <<>>, "none")
    ELSE IF Phases[ph] = "author" THEN run_cmd(p, <<"chomp_quotes">>, "first")
    ELSE IF Phases[ph] = "date" THEN run_cmd(p, <<"chomp_quotes", "parse">>, "first")
    ELSE run_cmd(p, <<"chomp_quotes">>, "none")

\* the assignment of one phase's value to its commit
Assign(commit, ph, v) ==
    IF Phases[ph] = "files" THEN [commit EXCEPT !.files = v]
    ELSE IF Phases[ph] = "author" THEN [commit EXCEPT !.author = Some(v)]
    ELSE IF Phases[ph] = "date" THEN [commit EXCEPT !.created = Some(v)]
    ELSE [commit EXCEPT !.message = Some(Strip(Join(v, NL), Whitespace))]

Min(a, b) == IF a < b THEN a ELSE b

\* commits whose files query gave no path are left out of the list
MergeDropsEmpty(store, res, ph) ==
    SelectSeq([i \in 1..Len(store) |->
                  IF i <= Min(Len(res), Len(store)) THEN Assign(store[i], ph, res[i])
                  ELSE store[i]],
              LAMBDA c : c.files # << <<>> >>)

\* the loop stops one commit early
MergeDropsLast(store, res, ph) ==
    [i \in 1..Len(store) |->
        IF i < Min(Len(res), Len(store)) THEN Assign(store[i], ph, res[i]) ELSE store[i]]

\* for value, commit in zip(result, commits): commit.<field> = value
Merge(store, res, ph) ==
    [i \in 1..Len(store) |->
        IF i <= Min(Len(res), Len(store)) THEN Assign(store[i], ph, res[i]) ELSE store[i]]

\* results gathered in the order the workers finish
PlaceInCompletionOrder(slots, i, r) ==
    LET j == CHOOSE j \in 1..Len(slots) :
                 slots[j] = None /\ \A k \in 1..(j - 1) : slots[k] # None
    IN  [slots EXCEPT ![j] = Some(r)]

\* the slot of pool.map's result list that the task submitted i-th fills
Place(slots, i, r) == [slots EXCEPT ![i] = Some(r)]

\* the commits enumeration creates: one per line of the log's output
Enumerated(rp, fl) ==
    LET out == run_cmd(Git(rp, fl, Argv("log", <<>>)), <<"chomp_quotes">>, "none").val
    IN  [i \in 1..Len(out) |-> Commit(out[i])]

\* a sequential execution of one phase: each commit's task run in turn, its value
\* assigned to that commit
SequentialPhase(store, ph, rp, fl) ==
    IF \E i \in 1..Len(store) : Task(rp, fl, ph, store[i]).raised
    THEN Raised("ParserError")
    ELSE Returned([i \in 1..Len(store) |->
                     Assign(store[i], ph, Task(rp, fl, ph, store[i]).val)])

RECURSIVE SequentialPhases(_, _, _, _, _)
\* phases ph..last in turn
SequentialPhases(store, ph, last, rp, fl) ==
    IF ph > last THEN Returned(store)
    ELSE LET r == SequentialPhase(store, ph, rp, fl) IN
         IF r.raised THEN r ELSE SequentialPhases(r.val, ph + 1, last, rp, fl)

\* the store a build without the pool makes of repository rp
SequentialBuild(rp, fl) == SequentialPhases(Enumerated(rp, fl), 1, Len(Phases), rp, fl)

\* ---------------------------------------------------------------- state
VARIABLES
    repo,      \* the repository's history: commit numbers, newest first
    fail,      \* the command the environment fails
    disk,      \* PICKLE_PATH (beside the program, whatever the working directory):
               \* None, or Some(the file's bytes)
    disk0,     \* the file as it was when the call in progress started
    cwd,       \* the process working directory
    old_cwd,   \* inside_custom_directory's saved directory
    pc,        \* the position of the call of get_or_create_commits in progress
    force,     \* its argument
    commits,   \* its local list
    phase,     \* the fan-out phase in progress, 1..4
    task,      \* pool.map: per submitted task, "pending", "running" or "done"
    result,    \* pool.map: per submission index, None or Some(the task's outcome)
    nrun,      \* run_cmd invocations of the call in progress
    nonzero,   \* commands of the call in progress that exited non-zero
    lastrun,   \* the latest run_cmd invocation: the exit status and the outcome
    hist,      \* the finished calls, oldest first
    qres       \* the latest query on the store last returned, and its outcome

vars == <<repo, fail, disk, disk0, cwd, old_cwd, pc, force, commits, phase, task, result,
          nrun, nonzero, lastrun, hist, qres>>

env == <<repo, fail>>
pool == <<phase, task, result>>

NoRun == [exit |-> 0, raised |-> FALSE]
\* a query's record: which query, its arguments, and whether it raised or what it gave
Asked(q, arg, r) == [q |-> q, arg |-> arg, raised |-> r.raised, val |-> r.val]
NoQuery == Asked("none", <<>>, Returned(0))

\* the artifacts an earlier run can have left: none, one cut short, the store of
\* the present history, or the store of the history before its newest commit
InitialDisks(rp) ==
    {None, Some(Corrupt)}
        \cup {Some(Serialize(SequentialBuild(SubSeq(rp, j, Len(rp)), NoFail).val)) :
                j \in {j \in 1..2 : j <= Len(rp)}}

Init ==
    /\ \E n \in 0..MaxCommits : repo = [i \in 1..n |-> i]
    /\ fail \in Failures(Len(repo))
    /\ disk \in InitialDisks(repo)
    /\ disk0 = disk
    /\ cwd = "start"
    /\ old_cwd = "start"
    /\ pc = "idle"
    /\ force = FALSE
    /\ commits = <<>>
    /\ phase = 1
    /\ task = <<>>
    /\ result = <<>>
    /\ nrun = 0
    /\ nonzero = 0
    /\ lastrun = NoRun
    /\ hist = <<>>
    /\ qres = NoQuery

\* the call in progress ends: it returns store or raises exc
Finished(status, exc, store, src) ==
    [force |-> force, status |-> status, exc |-> exc, store |-> store, src |-> src,
     nrun |-> nrun', nonzero |-> nonzero', disk0 |-> disk0, disk |-> disk',
     cwd |-> cwd']

Raise(exc) ==
    /\ hist' = Append(hist, Finished("raised", exc, <<>>, "none"))
    /\ pc' = "idle"

Return(store, src) ==
    /\ hist' = Append(hist, Finished("returned", "none", store, src))
    /\ pc' = "idle"

\* ---------------------------------------------------------------- get_or_create_commits
\* the call starts: commits = []
Call(f) ==
    /\ pc = "idle"
    /\ Len(hist) < MaxCalls
    /\ force' = f
    /\ commits' = <<>>
    /\ nrun' = 0
    /\ nonzero' = 0
    /\ disk0' = disk
    /\ qres' = NoQuery
    /\ pc' = IF f THEN "remove" ELSE "isfile"
    /\ UNCHANGED <<env, disk, cwd, old_cwd, pool, lastrun, hist>>

\* the forced call that leaves the file in place
RemoveKeepsFile ==
    /\ pc = "remove"
    /\ pc' = "isfile"
    /\ UNCHANGED <<env, disk0, disk, cwd, old_cwd, force, commits, pool, nrun, nonzero,
                   lastrun, hist, qres>>

\* if force: os.remove(PICKLE_PATH), which raises when there is no file
Remove ==
    /\ pc = "remove"
    /\ UNCHANGED <<env, disk0, cwd, old_cwd, force, commits, pool, nrun, nonzero, lastrun, qres>>
    /\ IF disk = None
       THEN /\ disk' = disk
            /\ Raise("FileNotFoundError")
       ELSE /\ disk' = None
            /\ pc' = "isfile"
            /\ hist' = hist

\* the load that falls back to ingestion when the file does not deserialize
LoadCacheOrRebuild ==
    /\ pc = "isfile"
    /\ disk # None
    /\ UNCHANGED <<env, disk0, disk, force, pool, nrun, nonzero, lastrun, qres>>
    /\ LET r == Deserialize(disk[1]) IN
       IF r.raised
       THEN /\ commits' = commits
            /\ old_cwd' = cwd
            /\ cwd' = "repo"
            /\ pc' = "enumerate"
            /\ hist' = hist
       ELSE /\ commits' = r.val
            /\ UNCHANGED <<cwd, old_cwd>>
            /\ Return(r.val, "cache")

\* if os.path.isfile(PICKLE_PATH): commits = pickle.load(f), then return commits
LoadCache ==
    /\ pc = "isfile"
    /\ disk # None
    /\ UNCHANGED <<env, disk0, disk, cwd, old_cwd, force, pool, nrun, nonzero, lastrun, qres>>
    /\ LET r == Deserialize(disk[1]) IN
       IF r.raised
       THEN /\ commits' = commits
            /\ Raise(r.val)
       ELSE /\ commits' = r.val
            /\ Return(r.val, "cache")

\* else: with inside_custom_directory(): old_cwd = os.getcwd(); os.chdir(repo_pathobj)
EnterDirectory ==
    /\ pc = "isfile"
    /\ disk = None
    /\ old_cwd' = cwd
    /\ cwd' = "repo"
    /\ pc' = "enumerate"
    /\ UNCHANGED <<env, disk0, disk, force, commits, pool, nrun, nonzero, lastrun, hist, qres>>

\* for commit_id in run_cmd(CMD_GET_ALL_COMMIT_IDS, ...): commits.append(Commit(cid=commit_id))
Enumerate ==
    /\ pc = "enumerate"
    /\ LET p == Git(repo, fail, Argv("log", <<>>)) IN
       /\ commits' = Enumerated(repo, fail)
       /\ nonzero' = nonzero + (IF p.exit # 0 THEN 1 ELSE 0)
       /\ lastrun' = [exit |-> p.exit, raised |-> FALSE]
    /\ nrun' = nrun + 1
    /\ phase' = 1
    /\ pc' = "submit"
    /\ UNCHANGED <<env, disk0, disk, cwd, old_cwd, force, task, result, hist, qres>>

\* with ProcessingPool(nodes=CPU_COUNT) as pool: pool.map(...) submits one task per commit
MapStart ==
    /\ pc = "submit"
    /\ task' = [i \in 1..Len(commits) |-> "pending"]
    /\ result' = [i \in 1..Len(commits) |-> None]
    /\ pc' = "map"
    /\ UNCHANGED <<env, disk0, disk, cwd, old_cwd, force, commits, phase, nrun, nonzero,
                   lastrun, hist, qres>>

Running == {i \in 1..Len(task) : task[i] = "running"}

\* a free worker of the pool takes a pending task
WorkerStart(i) ==
    /\ pc = "map"
    /\ task[i] = "pending"
    /\ Cardinality(Running) < CPU_COUNT
    /\ task' = [task EXCEPT ![i] = "running"]
    /\ UNCHANGED <<env, disk0, disk, cwd, old_cwd, pc, force, commits, phase, result, nrun,
                   nonzero, lastrun, hist, qres>>

\* a worker finishes its task, in any order: run_cmd for the commit submitted i-th
WorkerFinish(i) ==
    /\ pc = "map"
    /\ task[i] = "running"
    /\ LET p == Git(repo, fail, Argv(Phases[phase], commits[i].cid))
           r == Task(repo, fail, phase, commits[i])
       IN  /\ result' = Place(result, i, r)
           /\ nonzero' = nonzero + (IF p.exit # 0 THEN 1 ELSE 0)
           /\ lastrun' = [exit |-> p.exit, raised |-> r.raised]
    /\ task' = [task EXCEPT ![i] = "done"]
    /\ nrun' = nrun + 1
    /\ UNCHANGED <<env, disk0, disk, cwd, old_cwd, pc, force, commits, phase, hist, qres>>

AllDone == \A i \in 1..Len(task) : task[i] = "done"
SomeRaised == \E i \in 1..Len(result) : result[i] # None /\ result[i][1].raised

\* the merge that does not wait for the phase: it writes the results collected so far
MergePhaseNoBarrier ==
    /\ pc = "map"
    /\ \/ AllDone
       \/ \E i \in 1..Len(task) : task[i] = "done"
    /\ ~SomeRaised
    /\ commits' = [i \in 1..Len(commits) |->
                      IF result[i] # None THEN Assign(commits[i], phase, result[i][1].val)
                      ELSE commits[i]]
    /\ IF phase < Len(Phases)
       THEN /\ phase' = phase + 1
            /\ pc' = "submit"
       ELSE /\ phase' = phase
            /\ pc' = "dump"
    /\ task' = <<>>
    /\ result' = <<>>
    /\ UNCHANGED <<env, disk0, disk, cwd, old_cwd, force, nrun, nonzero, lastrun, hist, qres>>

\* pool.map returns once every task is done; the values are written onto the commits
MergePhase ==
    /\ pc = "map"
    /\ AllDone
    /\ ~SomeRaised
    /\ commits' = Merge(commits, [i \in 1..Len(result) |-> result[i][1].val], phase)
    /\ IF phase < Len(Phases)
       THEN /\ phase' = phase + 1
            /\ pc' = "submit"
       ELSE /\ phase' = phase
            /\ pc' = "dump"
    /\ task' = <<>>
    /\ result' = <<>>
    /\ UNCHANGED <<env, disk0, disk, cwd, old_cwd, force, nrun, nonzero, lastrun, hist, qres>>

\* the failed build that puts back the artifact the call found
MapRaiseRestoresArtifact ==
    /\ pc = "map"
    /\ AllDone
    /\ SomeRaised
    /\ task' = <<>>
    /\ result' = <<>>
    /\ disk' = disk0
    /\ UNCHANGED <<env, disk0, cwd, old_cwd, force, commits, phase, nrun, nonzero,
                   lastrun, qres>>
    /\ Raise("ParserError")

\* pool.map re-raises a task's exception once every task is done; nothing catches it,
\* and inside_custom_directory has no finally: the directory is not restored
MapRaise ==
    /\ pc = "map"
    /\ AllDone
    /\ SomeRaised
    /\ task' = <<>>
    /\ result' = <<>>
    /\ UNCHANGED <<env, disk0, disk, cwd, old_cwd, force, commits, phase, nrun, nonzero,
                   lastrun, qres>>
    /\ Raise("ParserError")

\* the build that does not persist its store
DumpSkipped ==
    /\ pc = "dump"
    /\ pc' = "leave"
    /\ UNCHANGED <<env, disk0, disk, cwd, old_cwd, force, commits, pool, nrun, nonzero,
                   lastrun, hist, qres>>

\* with open(PICKLE_PATH, mode="wb") as f: pickle.dump(commits, f)
Dump ==
    /\ pc = "dump"
    /\ disk' = Some(Serialize(commits))
    /\ pc' = "leave"
    /\ UNCHANGED <<env, disk0, cwd, old_cwd, force, commits, pool, nrun, nonzero, lastrun,
                   hist, qres>>

\* the with block ends: os.chdir(old_cwd); return commits
LeaveAndReturn ==
    /\ pc = "leave"
    /\ cwd' = old_cwd
    /\ UNCHANGED <<env, disk0, disk, old_cwd, force, commits, pool, nrun, nonzero, lastrun, qres>>
    /\ Return(commits, "build")

\* ---------------------------------------------------------------- queries
\* c.created.date() as a triple, compared as dates compare
DateLE(a, b) ==
    \/ a.year < b.year
    \/ a.year = b.year /\ a.month < b.month
    \/ a.year = b.year /\ a.month = b.month /\ a.day <= b.day
Date(y, m, d) == [year |-> y, month |-> m, day |-> d]

IsLeap(y) == (y % 4 = 0 /\ y % 100 # 0) \/ y % 400 = 0
DaysBefore(y, m) ==
    <<0, 31, 59, 90, 120, 151, 181, 212, 243, 273, 304, 334>>[m]
        + (IF m > 2 /\ IsLeap(y) THEN 1 ELSE 0)
\* the ISO weekday (Monday 1 .. Sunday 7) of the first of January
Jan1Weekday(y) ==
    LET w == (1 + 5 * ((y - 1) % 4) + 4 * ((y - 1) % 100) + 6 * ((y - 1) % 400)) % 7
    IN  IF w = 0 THEN 7 ELSE w
WeeksIn(y) ==
    IF Jan1Weekday(y) = 4 \/ (IsLeap(y) /\ Jan1Weekday(y) = 3) THEN 53 ELSE 52

\* date_obj.isocalendar()[1]
get_week_number(d) ==
    LET doy == DaysBefore(d.year, d.month) + d.day
        wd == ((doy - 1 + Jan1Weekday(d.year) - 1) % 7) + 1
        w == (doy - wd + 10) \div 7
    IN  IF w < 1 THEN WeeksIn(d.year - 1)
        ELSE IF w > WeeksIn(d.year) THEN 1
        ELSE w

whole_year(year, c) ==
    /\ DateLE(Date(year, 1, 1), c.created[1])
    /\ ~DateLE(Date(year + 1, 1, 1), c.created[1])

only_authors(authors, c) == \E author \in authors : author = c.author[1]

\* str.lower
Lower(text) == [i \in 1..Len(text) |-> IF text[i] = "Fix" THEN "fix" ELSE text[i]]

\* has_message's in_message: search.lower() in c.message.lower()
in_message(search, c) == Contains(Lower(search), Lower(c.message[1]))

\* os.path.basename: what follows the last separator
RECURSIVE basename(_)
basename(path) ==
    IF \E i \in 1..Len(path) : path[i] = "/"
    THEN basename(SubSeq(path, 1 + (CHOOSE i \in 1..Len(path) : path[i] = "/"), Len(path)))
    ELSE path

\* str.endswith
EndsWith(text, suffix) ==
    /\ Len(suffix) <= Len(text)
    /\ SubSeq(text, Len(text) - Len(suffix) + 1, Len(text)) = suffix

\* main's edited_specific_extension(ext); dotext is the text ".ext"
edited_specific_extension(dotext, c) ==
    \E j \in 1..Len(c.files) : EndsWith(basename(c.files[j]), dotext)

\* a callable applied to a commit: the closures the queries build
Apply(fn, c) ==
    IF fn.name = "whole_year" THEN whole_year(fn.arg, c)
    ELSE IF fn.name = "only_authors" THEN only_authors(fn.arg, c)
    ELSE IF fn.name = "in_message" THEN in_message(fn.arg, c)
    ELSE IF fn.name = "edited_specific_extension" THEN edited_specific_extension(fn.arg, c)
    ELSE get_week_number(c.created[1])

RECURSIVE iterate_over(_, _)
\* for fn in args: commits = filter(fn, commits)
iterate_over(store, fns) ==
    IF fns = <<>> THEN store
    ELSE iterate_over(SelectSeq(store, LAMBDA c : Apply(Head(fns), c)), Tail(fns))

get_authors(store, substring) ==
    {a \in {store[i].author[1] : i \in 1..Len(store)} : Contains(substring, a)}

\* a new key goes in front of the keys seen so far
AddToGroupFront(dd, key, commit) ==
    IF \E j \in 1..Len(dd) : dd[j].key = key
    THEN LET j == CHOOSE j \in 1..Len(dd) : dd[j].key = key
         IN  [dd EXCEPT ![j].commits = Append(@, commit)]
    ELSE <<[key |-> key, commits |-> <<commit>>]>> \o dd

\* dd[key].append(commit): keys in first-seen order
AddToGroup(dd, key, commit) ==
    IF \E j \in 1..Len(dd) : dd[j].key = key
    THEN LET j == CHOOSE j \in 1..Len(dd) : dd[j].key = key
         IN  [dd EXCEPT ![j].commits = Append(@, commit)]
    ELSE Append(dd, [key |-> key, commits |-> <<commit>>])

RECURSIVE GroupLoop(_, _, _, _)
GroupLoop(store, keys, i, dd) ==
    IF i > Len(store) THEN dd
    ELSE GroupLoop(store, keys, i + 1, AddToGroup(dd, keys[i], store[i]))

\* get_key is getattr(c, prop) when prop is given, fn(c) otherwise
get_key(c, prop, fn) == IF prop # "none" THEN c[prop] ELSE Apply(fn, c)

group_by(store, prop, fn) ==
    GroupLoop(store, [i \in 1..Len(store) |-> get_key(store[i], prop, fn)], 1, <<>>)

\* lambda c: get_week_number(c.created.date())
WeekNumber == [name |-> "week_number", arg |-> 0]

\* counter.update({fn(key): len(commits)}) with fn the identity
AddCount(counter, key, n) ==
    IF \E j \in 1..Len(counter) : counter[j].key = key
    THEN LET j == CHOOSE j \in 1..Len(counter) : counter[j].key = key
         IN  [counter EXCEPT ![j].n = @ + n]
    ELSE Append(counter, [key |-> key, n |-> n])

RECURSIVE do_count(_)
do_count(grouped) ==
    IF grouped = <<>> THEN <<>>
    ELSE AddCount(do_count(SubSeq(grouped, 1, Len(grouped) - 1)),
                  grouped[Len(grouped)].key, Len(grouped[Len(grouped)].commits))

RECURSIVE Sum(_)
Sum(ns) == IF ns = <<>> THEN 0 ELSE Head(ns) + Sum(Tail(ns))

\* statistics.mean: raises on no data; the quotient is kept as a fraction
mean(values) ==
    IF values = <<>> THEN Raised("StatisticsError")
    ELSE Returned([num |-> Sum(values), den |-> Len(values)])

\* list(iterate_over(commits, whole_year(year), only_authors(authors)))
FilteredCommits(store, substring, year) ==
    iterate_over(store, <<[name |-> "whole_year", arg |-> year],
                          [name |-> "only_authors", arg |-> get_authors(store, substring)]>>)

\* the number the function prints: int(mean(by_week_number.values()))
get_average_count_by_author_in_year(store, substring, year) ==
    LET filtered_commits == FilteredCommits(store, substring, year)
        by_week_number ==
            do_count(group_by(filtered_commits, "none", WeekNumber))
        m == mean([j \in 1..Len(by_week_number) |-> by_week_number[j].n])
    IN  IF m.raised THEN m ELSE Returned(m.val.num \div m.val.den)

Substrings == {<<"alice">>, <<"@">>, <<"zed">>}
Years == {2022, 2023}

\* the filter applied to the caller's list itself
CallerListFilteredInPlace(store, filtered) == filtered

\* the list main holds after a query that filtered it: iterate_over rebinds its own
\* parameter, and no query assigns to a commit or to the list
CallerList(store, filtered) == store

\* main holds the list the last call returned
HasStore ==
    /\ pc = "idle"
    /\ hist # <<>>
    /\ hist[Len(hist)].status = "returned"

\* main: get_average_count_by_author_in_year(commits, substring, year)
Query(substring, year) ==
    /\ HasStore
    /\ qres' = Asked("average", <<substring, year>>,
                     get_average_count_by_author_in_year(commits, substring, year))
    /\ commits' = CallerList(commits, FilteredCommits(commits, substring, year))
    /\ UNCHANGED <<env, disk0, disk, cwd, old_cwd, pc, force, pool, nrun, nonzero,
                   lastrun, hist>>

\* has_message(commits, search): len(list(iterate_over(commits, in_message)))
has_message(store, search) ==
    Len(iterate_over(store, <<[name |-> "in_message", arg |-> search]>>))

Searches == {<<>>, <<"Fix">>, <<"docs">>}
Extensions == {<<".py">>, <<".js">>, <<".sql">>}
Props == {"author", "none"}

\* main: group_by(commits, prop="author"), or by week number with fn
GroupQuery(prop) ==
    /\ HasStore
    /\ qres' = Asked("group_by", prop, Returned(group_by(commits, prop, WeekNumber)))
    /\ UNCHANGED <<env, disk0, disk, cwd, old_cwd, pc, force, commits, pool, nrun, nonzero,
                   lastrun, hist>>

\* do_count(group_by(commits, ...))
CountQuery(prop) ==
    /\ HasStore
    /\ qres' = Asked("do_count", prop, Returned(do_count(group_by(commits, prop, WeekNumber))))
    /\ UNCHANGED <<env, disk0, disk, cwd, old_cwd, pc, force, commits, pool, nrun, nonzero,
                   lastrun, hist>>

\* get_authors(commits, substring)
AuthorsQuery(substring) ==
    /\ HasStore
    /\ qres' = Asked("get_authors", substring, Returned(get_authors(commits, substring)))
    /\ UNCHANGED <<env, disk0, disk, cwd, old_cwd, pc, force, commits, pool, nrun, nonzero,
                   lastrun, hist>>

\* main: has_message(commits, msg)
MessageQuery(search) ==
    /\ HasStore
    /\ qres' = Asked("has_message", search, Returned(has_message(commits, search)))
    /\ commits' = CallerList(commits,
                             iterate_over(commits, <<[name |-> "in_message", arg |-> search]>>))
    /\ UNCHANGED <<env, disk0, disk, cwd, old_cwd, pc, force, pool, nrun, nonzero,
                   lastrun, hist>>

\* main: list(iterate_over(commits, edited_specific_extension(ext)))
ExtensionQuery(dotext) ==
    /\ HasStore
    /\ LET filtered ==
               iterate_over(commits, <<[name |-> "edited_specific_extension", arg |-> dotext]>>)
       IN  /\ qres' = Asked("iterate_over", dotext, Returned(filtered))
           /\ commits' = CallerList(commits, filtered)
    /\ UNCHANGED <<env, disk0, disk, cwd, old_cwd, pc, force, pool, nrun, nonzero,
                   lastrun, hist>>

\* ---------------------------------------------------------------- specification
Next ==
    \/ \E f \in BOOLEAN : Call(f)
    \/ Remove
    \/ LoadCache
    \/ EnterDirectory
    \/ Enumerate
    \/ MapStart
    \/ \E i \in 1..Len(task) : WorkerStart(i)
    \/ \E i \in 1..Len(task) : WorkerFinish(i)
    \/ MergePhase
    \/ MapRaise
    \/ Dump
    \/ LeaveAndReturn
    \/ \E substring \in Substrings, year \in Years : Query(substring, year)

Spec == Init /\ [][Next]_vars

\* main: one call of get_or_create_commits(), then the queries on its list in any
\* order and number
CallOnce ==
    /\ hist = <<>>
    /\ Call(FALSE)

NextQ ==
    \/ CallOnce
    \/ LoadCache
    \/ EnterDirectory
    \/ Enumerate
    \/ MapStart
    \/ \E i \in 1..Len(task) : WorkerStart(i)
    \/ \E i \in 1..Len(task) : WorkerFinish(i)
    \/ MergePhase
    \/ MapRaise
    \/ Dump
    \/ LeaveAndReturn
    \/ \E substring \in Substrings, year \in Years : Query(substring, year)
    \/ \E prop \in Props : GroupQuery(prop)
    \/ \E prop \in Props : CountQuery(prop)
    \/ \E substring \in Substrings : AuthorsQuery(substring)
    \/ \E search \in Searches : MessageQuery(search)
    \/ \E dotext \in Extensions : ExtensionQuery(dotext)

SpecQ == Init /\ [][NextQ]_vars

\* ---------------------------------------------------------------- properties
Calls == 1..Len(hist)

\* C1: in every fan-out phase, whatever the order in which the workers finish, the
\* value held for submission index i is the outcome of the task of the commit at
\* index i, and the commits after each merge are those a sequential execution of
\* the phases so far gives.
C1_ResultsBySubmissionIndex ==
    /\ pc = "map" =>
          \A i \in 1..Len(result) :
              result[i] # None =>
                  /\ task[i] = "done"
                  /\ result[i][1] = Task(repo, fail, phase, commits[i])
    /\ pc = "submit" =>
          LET r == SequentialPhases(Enumerated(repo, fail), 1, phase - 1, repo, fail)
          IN  ~r.raised /\ r.val = commits
    /\ pc = "dump" =>
          LET r == SequentialBuild(repo, fail) IN ~r.raised /\ r.val = commits

\* a later task's result is in place while an earlier task has not finished
C1_Witness ==
    /\ pc = "map"
    /\ Len(task) >= 2
    /\ task[1] = "running"
    /\ task[2] = "done"
    /\ result[2] # None

\* C2: a call without force that follows a returned call without force finds the
\* artifact: it returns the same store from the cache and invokes run_cmd not once.
C2_SecondCallFromCache ==
    /\ \A k \in Calls :
          (k > 1 /\ ~hist[k].force /\ ~hist[k - 1].force
                 /\ hist[k - 1].status = "returned") =>
              /\ hist[k].status = "returned"
              /\ hist[k].src = "cache"
              /\ hist[k].nrun = 0
              /\ hist[k].store = hist[k - 1].store
    /\ (pc # "idle" /\ ~force /\ hist # <<>> /\ ~hist[Len(hist)].force
              /\ hist[Len(hist)].status = "returned") =>
          /\ pc = "isfile"
          /\ disk # None
          /\ nrun = 0

\* the first call built the store of two commits or more, the second returned it
C2_Witness ==
    /\ Len(hist) >= 2
    /\ ~hist[1].force /\ ~hist[2].force
    /\ hist[1].src = "build" /\ hist[1].status = "returned"
    /\ hist[2].status = "returned"
    /\ Len(hist[2].store) >= 2

\* C3: a forced call that finds no artifact is no error: it goes on to ingestion.
C3_ForceWithoutArtifact ==
    \A k \in Calls :
        (hist[k].force /\ hist[k].disk0 = None) =>
            /\ hist[k].exc # "FileNotFoundError"
            /\ hist[k].nrun >= 1

\* C4: a command that fails aborts the build: the call raises, and an artifact is
\* written only by a build none of whose commands failed.
C4_FailureAbortsBuild ==
    /\ pc = "leave" => nonzero = 0
    /\ \A k \in Calls : hist[k].nonzero > 0 => hist[k].status = "raised"

\* C5: run_cmd raises whenever its command exits with a non-zero status.
C5_NonZeroExitRaises == lastrun.exit # 0 => lastrun.raised

\* C6: the store a build returns holds one commit per enumerated id, in order, and
\* each has files, author, created and message set.
C6_BuiltStoreComplete ==
    \A k \in Calls :
        (hist[k].status = "returned" /\ hist[k].src = "build") =>
            LET store == hist[k].store
                ids == run_cmd(Git(repo, fail, Argv("log", <<>>)),
                               <<"chomp_quotes">>, "none").val
            IN  /\ [i \in 1..Len(store) |-> store[i].cid] = ids
                /\ \A i \in 1..Len(store) :
                      /\ store[i].files # <<>>
                      /\ store[i].author # None
                      /\ store[i].created # None
                      /\ store[i].message # None

\* a build returned a store of two commits or more
C6_Witness ==
    \E k \in Calls :
        /\ hist[k].status = "returned"
        /\ hist[k].src = "build"
        /\ Len(hist[k].store) >= 2

\* C7: a forced call that finds an artifact deletes it before anything else and
\* never loads it: a returned store comes from enumeration and all four phases of
\* that call, and is the artifact's new content.
C7_ForcedRebuild ==
    /\ (force /\ pc = "isfile") => disk = None
    /\ \A k \in Calls :
          (hist[k].force /\ hist[k].disk0 # None) =>
              /\ hist[k].src # "cache"
              /\ hist[k].nrun >= 1
              /\ hist[k].status = "returned" =>
                    /\ hist[k].src = "build"
                    /\ hist[k].nrun = 1 + Len(Phases) * Len(hist[k].store)
                    /\ hist[k].disk = Some(Serialize(hist[k].store))
              /\ hist[k].status = "raised" => hist[k].disk = None

\* a forced call found the store of an older history and returned another store
C7_Witness ==
    \E k \in Calls :
        /\ hist[k].force
        /\ hist[k].status = "returned"
        /\ hist[k].disk0 # None
        /\ ~Deserialize(hist[k].disk0[1]).raised
        /\ Deserialize(hist[k].disk0[1]).val # hist[k].store

\* C8: every commit of the store has a non-empty id, whatever enumeration prints.
C8_IdsNonEmpty ==
    /\ \A i \in 1..Len(commits) : commits[i].cid # <<>>
    /\ \A k \in Calls : \A i \in 1..Len(hist[k].store) : hist[k].store[i].cid # <<>>

\* C9: the weekly-mean query does not raise, also when no commit matches.
C9_EmptyMeanIsDefined == ~qres.raised

\* C10: a call without force that finds an artifact it cannot deserialize raises:
\* it invokes run_cmd not once, returns no store and leaves the file as it was.
C10_CorruptArtifactIsFatal ==
    \A k \in Calls :
        (~hist[k].force /\ hist[k].disk0 # None /\ Deserialize(hist[k].disk0[1]).raised) =>
            /\ hist[k].status = "raised"
            /\ hist[k].exc = "UnpicklingError"
            /\ hist[k].nrun = 0
            /\ hist[k].store = <<>>
            /\ hist[k].disk = hist[k].disk0

\* a call without force found the artifact cut short
C10_Witness ==
    \E k \in Calls :
        /\ ~hist[k].force
        /\ hist[k].disk0 = Some(Corrupt)
        /\ hist[k].status = "raised"

\* C11: the weekly-mean query gives the arithmetic mean of the weekly counts of the
\* matching commits, the number of matching commits over the number of weeks they
\* fall in, not truncated to an integer.
C11_MeanNotTruncated ==
    (qres.q = "average" /\ ~qres.raised) =>
        LET matching ==
                {i \in 1..Len(commits) :
                    /\ commits[i].created[1].year = qres.arg[2]
                    /\ Contains(qres.arg[1], commits[i].author[1])}
            weeks == {get_week_number(commits[i].created[1]) : i \in matching}
        IN  qres.val * Cardinality(weeks) = Cardinality(matching)

\* C12: group_by gives its keys in first-seen order, puts every commit in the group
\* of its key and nowhere else, and keeps the commits of a group in input order.
C12_GroupByPartition ==
    qres.q = "group_by" =>
        LET g == qres.val
            keys == [i \in 1..Len(commits) |-> get_key(commits[i], qres.arg, WeekNumber)]
            FirstSeen(k) ==
                CHOOSE i \in 1..Len(keys) : keys[i] = k /\ \A j \in 1..(i - 1) : keys[j] # k
        IN  /\ \A i \in 1..Len(keys) : \E j \in 1..Len(g) : g[j].key = keys[i]
            /\ \A j \in 1..Len(g) : \E i \in 1..Len(keys) : g[j].key = keys[i]
            /\ \A j1, j2 \in 1..Len(g) :
                  j1 < j2 => /\ g[j1].key # g[j2].key
                             /\ FirstSeen(g[j1].key) < FirstSeen(g[j2].key)
            /\ \A j \in 1..Len(g) :
                  g[j].commits =
                      SelectSeq(commits,
                                LAMBDA c : get_key(c, qres.arg, WeekNumber) = g[j].key)

\* authors a, b, a: keys a, b with two commits and one
C12_Witness ==
    /\ qres.q = "group_by"
    /\ qres.arg = "author"
    /\ Len(commits) = 3
    /\ Len(qres.val) = 2
    /\ qres.val[1].key = Some(AuthorOf(1))
    /\ Len(qres.val[1].commits) = 2
    /\ Len(qres.val[2].commits) = 1

\* the changed-files query of the commit cid exits with success and prints no path
NoPaths(cid) ==
    LET p == Git(repo, fail, Argv("files", cid)) IN p.exit = 0 /\ p.stdout = <<>>

\* C13: an enumerated commit whose changed-files query prints no path is in the
\* store a build returns and in the artifact, and the file-extension filter run
\* over the store ends without error and does not select it.
C13_EmptyFilesCommitKept ==
    /\ \A k \in Calls :
          (hist[k].status = "returned" /\ hist[k].src = "build") =>
              \A i \in 1..Len(Enumerated(repo, fail)) :
                  LET cid == Enumerated(repo, fail)[i].cid IN
                  NoPaths(cid) =>
                      /\ \E j \in 1..Len(hist[k].store) : hist[k].store[j].cid = cid
                      /\ \E j \in 1..Len(Deserialize(hist[k].disk[1]).val) :
                            Deserialize(hist[k].disk[1]).val[j].cid = cid
    /\ qres.q = "iterate_over" =>
          /\ ~qres.raised
          /\ \A j \in 1..Len(qres.val) : ~NoPaths(qres.val[j].cid)

\* the filter ran over a built store that holds a commit without paths, and
\* selected another commit
C13_Witness ==
    /\ qres.q = "iterate_over"
    /\ hist[Len(hist)].src = "build"
    /\ \E i \in 1..Len(commits) : NoPaths(commits[i].cid)
    /\ Len(qres.val) >= 1

\* C14: whatever queries have run, the list main holds is the list the call
\* returned: same length, same order, same fields.
C14_QueriesLeaveStore == HasStore => commits = hist[Len(hist)].store

\* a text search selected some commits of the list and not others
C14_Witness ==
    /\ qres.q = "has_message"
    /\ qres.val >= 1
    /\ qres.val < Len(commits)

\* the field phase ph assigns is set on the commit c
FieldSet(c, ph) ==
    IF Phases[ph] = "files" THEN c.files # <<>>
    ELSE IF Phases[ph] = "author" THEN c.author # None
    ELSE IF Phases[ph] = "date" THEN c.created # None
    ELSE c.message # None

\* the tasks that are running after the step and were not before it
Started ==
    {i \in 1..Len(task') : task'[i] = "running" /\ (i > Len(task) \/ task[i] # "running")}

\* C15: within a build, a task starts only after enumeration and after the merge of
\* every earlier phase; a phase's values are written onto the commits only when all
\* its tasks are done and none is running; the artifact is written only after the
\* merge of the fourth phase.
C15_PhaseBarriers ==
    [][ /\ Started # {} =>
              /\ pc = "map"
              /\ nrun >= 1
              /\ \A ph \in 1..(phase - 1) :
                    \A i \in 1..Len(commits) : FieldSet(commits[i], ph)
              /\ \A ph \in phase..Len(Phases) :
                    \A i \in 1..Len(commits) : ~FieldSet(commits[i], ph)
        /\ (pc \in {"submit", "map", "dump", "leave"} /\ commits' # commits) =>
              /\ pc = "map"
              /\ AllDone
              /\ Running = {}
              /\ \A i \in 1..Len(result) : result[i] # None
              /\ pc' \in {"submit", "dump"}
        /\ (pc = "submit" /\ pc' = "map") =>
              \A ph \in 1..(phase - 1) : \A i \in 1..Len(commits) : FieldSet(commits[i], ph)
        /\ (disk' # disk /\ disk' # None) =>
              /\ pc = "dump"
              /\ phase = Len(Phases)
              /\ task = <<>>
              /\ \A ph \in 1..Len(Phases) :
                    \A i \in 1..Len(commits) : FieldSet(commits[i], ph)
      ]_vars

\* the fourth phase of a build of two commits or more has been merged, and the
\* artifact is not yet written
C15_Witness ==
    /\ pc = "dump"
    /\ phase = Len(Phases)
    /\ Len(commits) >= 2
    /\ disk = None

\* the working directory when the k-th call started: no step between calls changes it
CwdBefore(k) == IF k = 1 THEN "start" ELSE hist[k - 1].cwd

\* C16: when a call has returned or raised, the process working directory is the one
\* before the call.
C16_DirectoryRestored == \A k \in Calls : hist[k].cwd = CwdBefore(k)

\* the ids of a store, in order
Ids(store) == [i \in 1..Len(store) |-> store[i].cid]

\* the ids enumeration gives: the lines of the log, quotes removed
EnumeratedIds == run_cmd(Git(repo, fail, Argv("log", <<>>)), <<"chomp_quotes">>, "none").val

\* C17: from enumeration to the return of a build, the ids of the commits are the
\* enumerated ids in the enumerated order, without duplicates; no merge changes
\* them, and the artifact written holds the same ids in the same order.
C17_IdsPreserved ==
    LET ids == EnumeratedIds IN
    /\ pc \in {"submit", "map", "dump", "leave"} =>
          /\ Ids(commits) = ids
          /\ \A i, j \in 1..Len(commits) : i < j => commits[i].cid # commits[j].cid
    /\ pc = "leave" =>
          /\ disk # None
          /\ Ids(Deserialize(disk[1]).val) = ids
    /\ \A k \in Calls :
          (hist[k].status = "returned" /\ hist[k].src = "build") =>
              /\ Ids(hist[k].store) = ids
              /\ Ids(Deserialize(hist[k].disk[1]).val) = ids

\* a build of two commits or more has written its artifact
C17_Witness ==
    /\ pc = "leave"
    /\ Len(commits) >= 2

\* C18: when a call has returned, from the cache or from a build, forced or not,
\* the artifact exists and deserializes to the store returned; a build has written
\* it before it returns.
C18_ArtifactIsReturnedStore ==
    /\ \A k \in Calls :
          hist[k].status = "returned" =>
              /\ hist[k].disk # None
              /\ ~Deserialize(hist[k].disk[1]).raised
              /\ Deserialize(hist[k].disk[1]).val = hist[k].store
    /\ pc = "leave" =>
          /\ disk # None
          /\ Deserialize(disk[1]) = Returned(commits)

\* a call returned the cached store, and a forced call after it built and returned
\* a store of two commits or more
C18_Witness ==
    /\ Len(hist) >= 2
    /\ hist[1].status = "returned" /\ hist[1].src = "cache"
    /\ hist[2].status = "returned" /\ hist[2].src = "build" /\ hist[2].force
    /\ Len(hist[2].store) >= 2

\* the k-th call was forced, found an artifact and failed in ingestion
ForcedFailed(k) ==
    /\ hist[k].force
    /\ hist[k].disk0 # None
    /\ hist[k].status = "raised"

\* C19: a forced call that finds an artifact and fails in ingestion leaves no
\* artifact, and the call without force that follows it finds none, loads nothing
\* and runs ingestion again.
C19_DeleteNotRolledBack ==
    /\ \A k \in Calls :
          ForcedFailed(k) =>
              /\ hist[k].nrun >= 1
              /\ hist[k].disk = None
              /\ (k < Len(hist) /\ ~hist[k + 1].force) =>
                    /\ hist[k + 1].disk0 = None
                    /\ hist[k + 1].src # "cache"
                    /\ hist[k + 1].nrun >= 1
    /\ (hist # <<>> /\ ForcedFailed(Len(hist)) /\ ~force /\ pc = "isfile") => disk = None

\* a forced call deleted the store of two commits or more and failed, and the call
\* without force after it ran ingestion
C19_Witness ==
    /\ Len(hist) = 2
    /\ ForcedFailed(1)
    /\ ~Deserialize(hist[1].disk0[1]).raised
    /\ Len(Deserialize(hist[1].disk0[1]).val) >= 2
    /\ ~hist[2].force
    /\ hist[2].nrun >= 2

====
